---- MODULE Spec2Model ----
(***************************************************************************)
(* Model of the Optex hybrid predictive optimizer (fastapi_sim/main.py).   *)
(*                                                                         *)
(* Numbers.  The program computes in floating point; the model computes in *)
(* fixed point with one decimal: every process quantity (fuel rates, feed  *)
(* rate, speeds, temperatures, torque, O2, power, LSF, the ML weight) is   *)
(* the integer 10*value, so 1450.0 degC is 14500 and the weight 0.3 is 3.  *)
(* The limestone-to-clay ratio alone keeps two decimals, as the simulator  *)
(* rounds it (4.65 is 465).  Prices are integer cents and money is integer *)
(* thousandths of a dollar.                                                *)
(* Divisions round towards minus infinity.                                 *)
(***************************************************************************)
EXTENDS Integers, Sequences, FiniteSets, TLC

(***************************************************************************)
(* Small helpers for Python built-ins.                                     *)
(***************************************************************************)
Max2(a, b) == IF a >= b THEN a ELSE b
Min2(a, b) == IF a <= b THEN a ELSE b
Max3(a, b, c) == Max2(a, Max2(b, c))

\* dict.get(key, default)
Get(d, k, default) == IF k \in DOMAIN d THEN d[k] ELSE default

\* min(vals) and max(vals) of a non-empty set of integers
SetMin(S) == CHOOSE x \in S : \A y \in S : x <= y
SetMax(S) == CHOOSE x \in S : \A y \in S : x >= y

\* np.clip(x, lo, hi)
Clip(x, lo, hi) == Max2(lo, Min2(hi, x))

\* dict.update(other): keys of other win
DictUpdate(d, other) ==
    [k \in (DOMAIN d) \cup (DOMAIN other) |-> IF k \in DOMAIN other THEN other[k] ELSE d[k]]

\* the empty dict
EmptyDict == [k \in {} |-> 0]

\* Python's None; a value x that may be None is held as <<x>>
None == <<>>
Some(x) == <<x>>

(***************************************************************************)
(* OPTIMIZER_VARIABLES and ENGINEERING_LIMITS (main.py 1033-1065).         *)
(***************************************************************************)
OPTIMIZER_VARIABLES ==
    [s \in {"Raw Materials & Grinding", "Clinkerization"} |->
       IF s = "Clinkerization"
       THEN [constraints  |-> <<"kiln_motor_torque_pct", "burning_zone_temp_c",
                                "kiln_inlet_o2_pct", "id_fan_power_kw", "lsf_predicted">>,
             optimization |-> <<"trad_fuel_rate_kg_hr", "alt_fuel_rate_kg_hr",
                                "raw_meal_feed_rate_tph", "limestone_to_clay_ratio",
                                "kiln_speed_rpm", "id_fan_speed_pct">>]
       ELSE [constraints  |-> <<"limestone_feeder_pct", "clay_feeder_pct",
                                "mill_vibration_mm_s", "separator_speed_rpm">>,
             optimization |-> <<"power_kw", "mill_throughput_tph", "mill_power_kwh_ton">>]]

ENGINEERING_LIMITS ==
    [trad_fuel_rate_kg_hr    |-> <<9000, 18000>>,
     alt_fuel_rate_kg_hr     |-> <<1000, 10000>>,
     raw_meal_feed_rate_tph  |-> <<1000, 2200>>,
     limestone_to_clay_ratio |-> <<300, 500>>,
     kiln_speed_rpm          |-> <<20, 55>>,
     id_fan_speed_pct        |-> <<600, 950>>,
     burning_zone_temp_c     |-> <<14000, 15000>>,
     kiln_motor_torque_pct   |-> <<450, 850>>,
     kiln_inlet_o2_pct       |-> <<20, 60>>,
     id_fan_power_kw         |-> <<1000, 3000>>,
     lsf_predicted           |-> <<970, 990>>]

\* the variables predict_constraint_responses returns
ConstraintVars == {"burning_zone_temp_c", "kiln_motor_torque_pct", "kiln_inlet_o2_pct",
                   "id_fan_power_kw", "lsf_predicted"}

\* the variables the physics model and the ensemble both predict
BlendedVars == {"burning_zone_temp_c", "kiln_motor_torque_pct", "kiln_inlet_o2_pct",
                "id_fan_power_kw"}

(***************************************************************************)
(* CementProcessModel.calculate_constraint_responses (main.py 165-215).    *)
(***************************************************************************)
calculate_constraint_responses(optimization_vars, current_constraints) ==
    LET trad_fuel     == Get(optimization_vars, "trad_fuel_rate_kg_hr", 12000)
        alt_fuel      == Get(optimization_vars, "alt_fuel_rate_kg_hr", 4000)
        feed_rate     == Get(optimization_vars, "raw_meal_feed_rate_tph", 1500)
        kiln_speed    == Get(optimization_vars, "kiln_speed_rpm", 35)
        id_fan_speed  == Get(optimization_vars, "id_fan_speed_pct", 750)
        current_torque == Get(current_constraints, "kiln_motor_torque_pct", 700)
        current_temp   == Get(current_constraints, "burning_zone_temp_c", 14500)
        \* 1. burning zone temperature: energy balance / 100000 * 0.8
        total_fuel_energy  == trad_fuel * 7000 + alt_fuel * 4500
        base_energy_demand == feed_rate * 1600
        new_temp == current_temp + ((total_fuel_energy - base_energy_demand) * 8) \div 1000000
        \* 2. kiln motor torque: (speed - 3.5) * 8 + (feed / 150 - 1) * 15
        speed_effect == (kiln_speed - 35) * 8
        load_effect  == (feed_rate - 1500) \div 10
        new_torque   == current_torque + speed_effect + load_effect
        \* 3. kiln inlet O2: 21 * (ratio - 1) / max(ratio, 1), ratio = supply / max(demand, 1)
        demand == Max2(trad_fuel + alt_fuel, 1000)
        supply == id_fan_speed * 200
        new_o2 == IF supply >= demand
                  THEN (210 * (supply - demand)) \div supply
                  ELSE (210 * (supply - demand)) \div demand
        \* 4. ID fan power: 180 * (speed / 75) ^ 3
        new_fan_power == (id_fan_speed * id_fan_speed * id_fan_speed) \div 234375
    IN  [burning_zone_temp_c   |-> Max2(14000, Min2(15000, new_temp)),
         kiln_motor_torque_pct |-> Max2(500, Min2(850, new_torque)),
         kiln_inlet_o2_pct     |-> Max2(20, Min2(60, new_o2)),
         id_fan_power_kw       |-> Max2(500, Min2(3000, new_fan_power))]

(***************************************************************************)
(* predict_lsf_from_features (main.py 251-296).  The loaded SVR model is   *)
(* a pickle outside the sources: a model is its raw output, None when the  *)
(* file could not be loaded.                                               *)
(***************************************************************************)
predict_lsf_from_features(lsf_model) ==
    IF lsf_model = None
    THEN 975
    ELSE LET lsf_pred == lsf_model[1]
         IN  IF lsf_pred < 800 \/ lsf_pred > 1100
             THEN Clip(lsf_pred, 800, 1100)
             ELSE lsf_pred

(***************************************************************************)
(* MLRelationshipModel (main.py 299-386).  A fitted random forest answers  *)
(* with an average of training targets; the model keeps, per target, the   *)
(* plain mean of the window's targets as the forest's answer.              *)
(***************************************************************************)
MIN_SAMPLES == 10

NewMLRelationshipModel == [is_trained |-> FALSE, models |-> EmptyDict]

\* the sum of one constraint variable's training targets over the window
RECURSIVE TargetSum(_, _)
TargetSum(plant_history, var) ==
    IF plant_history = <<>>
    THEN 0
    ELSE Head(plant_history).kiln[var] + TargetSum(Tail(plant_history), var)

\* the four fitted forests (main.py 339-359)
FitModels(plant_history) ==
    [var \in BlendedVars |-> TargetSum(plant_history, var) \div Len(plant_history)]

\* returns <<success, new ml_model>>
train_from_historical_data(ml_model, plant_history) ==
    IF Len(plant_history) < MIN_SAMPLES
    THEN <<FALSE, ml_model>>
    ELSE <<TRUE, [is_trained |-> TRUE, models |-> FitModels(plant_history)]>>

predict_constraints(ml_model) ==
    IF ~ml_model.is_trained THEN None ELSE Some(ml_model.models)

(***************************************************************************)
(* HybridProcessModel (main.py 389-483).                                   *)
(***************************************************************************)
NewHybridProcessModel == [ml_weight |-> 3, ml_model |-> NewMLRelationshipModel]

set_ml_weight(model, ml_weight) == [model EXCEPT !.ml_weight = ml_weight]

\* returns <<success, new hybrid model>>
update_ml_model(model, plant_history) ==
    LET r == train_from_historical_data(model.ml_model, plant_history)
    IN  <<r[1], [model EXCEPT !.ml_model = r[2]]>>

\* a faulty variant of predict_constraint_responses: an untrained ensemble enters
\* the blend as a prediction of zero
predict_constraint_responses_zero_ml(model, lsf_model, optimization_vars, current_constraints) ==
    LET fp_predictions == calculate_constraint_responses(optimization_vars, current_constraints)
        ml_predictions == predict_constraints(model.ml_model)
        hybrid_predictions ==
            [var \in DOMAIN fp_predictions |->
                ((10 - model.ml_weight) * fp_predictions[var]
                   + model.ml_weight * (IF ml_predictions = None THEN 0
                                        ELSE ml_predictions[1][var])) \div 10]
    IN  DictUpdate(hybrid_predictions, [lsf_predicted |-> predict_lsf_from_features(lsf_model)])

\* a faulty variant of predict_constraint_responses: the two weights are swapped
predict_constraint_responses_swapped(model, lsf_model, optimization_vars, current_constraints) ==
    LET fp_predictions == calculate_constraint_responses(optimization_vars, current_constraints)
        ml_predictions == predict_constraints(model.ml_model)
        hybrid_predictions ==
            IF ml_predictions = None
            THEN fp_predictions
            ELSE [var \in DOMAIN fp_predictions |->
                    (model.ml_weight * fp_predictions[var]
                       + (10 - model.ml_weight) * ml_predictions[1][var]) \div 10]
    IN  DictUpdate(hybrid_predictions, [lsf_predicted |-> predict_lsf_from_features(lsf_model)])

predict_constraint_responses(model, lsf_model, optimization_vars, current_constraints) ==
    LET fp_predictions == calculate_constraint_responses(optimization_vars, current_constraints)
        ml_predictions == predict_constraints(model.ml_model)
        hybrid_predictions ==
            IF ml_predictions = None
            THEN fp_predictions
            ELSE [var \in DOMAIN fp_predictions |->
                    ((10 - model.ml_weight) * fp_predictions[var]
                       + model.ml_weight * ml_predictions[1][var]) \div 10]
        predicted_lsf == predict_lsf_from_features(lsf_model)
    IN  DictUpdate(hybrid_predictions, [lsf_predicted |-> predicted_lsf])

(***************************************************************************)
(* CementProcessModel.calculate_soft_sensors (main.py 217-248).            *)
(***************************************************************************)
calculate_soft_sensors(optimization_vars, constraint_responses, current_state) ==
    LET trad_fuel    == Get(optimization_vars, "trad_fuel_rate_kg_hr", 12000)
        alt_fuel     == Get(optimization_vars, "alt_fuel_rate_kg_hr", 4000)
        feed_rate    == Get(optimization_vars, "raw_meal_feed_rate_tph", 1500)
        burning_temp == Get(constraint_responses, "burning_zone_temp_c", 14500)
        limestone_pct == current_state.raw_mill.limestone_feeder_pct
        \* 95 + (limestone - 75) * 0.3 + (temp - 1450) * 0.02
        calculated_lsf == 950 + ((limestone_pct - 750) * 3) \div 10
                              + ((burning_temp - 14500) * 2) \div 100
        \* min(1.0, (temp - 1400) / 100), in thousandths
        calcination_efficiency == Min2(1000, burning_temp - 14000)
        clinker_production_rate == (feed_rate * 65 * calcination_efficiency) \div 100000
        \* energy / 100, exact
        total_fuel_energy == trad_fuel * 70 + alt_fuel * 45
        shc_kcal_kg == IF clinker_production_rate > 0
                       THEN total_fuel_energy \div clinker_production_rate
                       ELSE 8000
        tsr_pct == IF total_fuel_energy > 0
                   THEN (alt_fuel * 45000) \div total_fuel_energy
                   ELSE 0
    IN  [calculated_lsf              |-> Max2(950, Min2(1050, calculated_lsf)),
         clinker_production_rate_tph |-> Max2(0, Min2(2000, clinker_production_rate)),
         shc_kcal_kg                 |-> Max2(6000, Min2(10000, shc_kcal_kg)),
         tsr_pct                     |-> Max2(0, Min2(500, tsr_pct))]

(***************************************************************************)
(* PricingConfig (main.py 91-101), prices in cents, and                    *)
(* calculate_economic_value (main.py 1125-1161), in thousandths of $/hour. *)
(***************************************************************************)
PricingConfig ==
    [limestone_price_per_ton       |-> 1500,
     clay_price_per_ton            |-> 1200,
     traditional_fuel_price_per_kg |-> 8,
     alternative_fuel_price_per_kg |-> 3,
     clinker_selling_price_per_ton |-> 5000,
     electricity_price_per_kwh     |-> 10,
     byproduct_credit_per_ton      |-> 500]

calculate_economic_value(optimization_vars, pricing) ==
    LET trad_fuel == Get(optimization_vars, "trad_fuel_rate_kg_hr", 12000)
        alt_fuel  == Get(optimization_vars, "alt_fuel_rate_kg_hr", 4000)
        feed_rate == Get(optimization_vars, "raw_meal_feed_rate_tph", 1500)
        \* feed * 0.75 * price and feed * 0.20 * price
        limestone_cost == (feed_rate * 75 * pricing.limestone_price_per_ton) \div 100
        clay_cost      == (feed_rate * 20 * pricing.clay_price_per_ton) \div 100
        trad_fuel_cost == trad_fuel * pricing.traditional_fuel_price_per_kg
        alt_fuel_cost  == alt_fuel * pricing.alternative_fuel_price_per_kg
        \* clinker production is feed * 0.65
        clinker_revenue   == (feed_rate * 65 * pricing.clinker_selling_price_per_ton) \div 100
        byproduct_revenue == (feed_rate * 65 * pricing.byproduct_credit_per_ton) \div 1000
        id_fan_power      == Get(optimization_vars, "id_fan_power_kw", 1800)
        electricity_cost  == id_fan_power * pricing.electricity_price_per_kwh
        total_cost    == limestone_cost + clay_cost + trad_fuel_cost + alt_fuel_cost
                           + electricity_cost
        total_revenue == clinker_revenue + byproduct_revenue
    IN  total_revenue - total_cost

(***************************************************************************)
(* PlantSimulator (main.py 490-723).  A snapshot keeps the groups and keys *)
(* the optimizer reads (kiln, raw_mill); the kpi and production groups     *)
(* hold none of the optimizer's variable names.  The field tick names the  *)
(* simulation step that produced the snapshot.                             *)
(*                                                                         *)
(* The simulator draws Gaussian noise; the model takes one realisation, a  *)
(* disturbance of one standard deviation whose sign alternates with the    *)
(* tick.  sin(tick / k) is taken as tick / k, which is within 1% for the   *)
(* ticks the model reaches.                                                *)
(***************************************************************************)
NewPlantSimulator ==
    [tick |-> 0,
     limestone_quality_drift |-> 105000,     \* in thousandths
     alt_fuel_moisture |-> 15000,            \* in 1/3000
     target_lsf |-> 980,
     target_production_rate |-> 1500,
     optimizer_targets |-> None,
     actual_values |-> [trad_fuel_rate_kg_hr   |-> 12000,
                        alt_fuel_rate_kg_hr    |-> 4000,
                        raw_meal_feed_rate_tph |-> 1500,
                        kiln_speed_rpm         |-> 35,
                        id_fan_speed_pct       |-> 750],
     control_active |-> FALSE]

NoiseAt(tick) == IF tick % 2 = 0 THEN 1 ELSE -1

\* round(x, 0) of a value held in tenths
Round0(x) == ((x + 5) \div 10) * 10

\* the physical limits apply_control_actions clips each actual value to
ControlClip ==
    [trad_fuel_rate_kg_hr   |-> <<10000, 15000>>,
     alt_fuel_rate_kg_hr    |-> <<2000, 6000>>,
     raw_meal_feed_rate_tph |-> <<1200, 1800>>,
     kiln_speed_rpm         |-> <<30, 45>>,
     id_fan_speed_pct       |-> <<700, 850>>]

\* response rates in hundredths: fuel 0.15, kiln speed 0.05, others 0.1
ResponseRate(variable) ==
    IF variable \in {"trad_fuel_rate_kg_hr", "alt_fuel_rate_kg_hr"} THEN 15
    ELSE IF variable = "kiln_speed_rpm" THEN 5
    ELSE 10

apply_control_actions(sim, noise) ==
    IF ~sim.control_active \/ sim.optimizer_targets = None
    THEN sim
    ELSE [sim EXCEPT !.actual_values =
            [variable \in DOMAIN sim.actual_values |->
                LET current == sim.actual_values[variable]
                    error == sim.optimizer_targets[1][variable] - current
                    control_action == (error * ResponseRate(variable)) \div 100
                    magnitude == IF control_action < 0 THEN -control_action ELSE control_action
                    disturbance == (noise * magnitude) \div 10
                IN  Clip(current + control_action + disturbance,
                         ControlClip[variable][1], ControlClip[variable][2])]]

\* PlantSimulator.step: <<new simulator, snapshot>>
step(sim0) ==
    LET tick  == sim0.tick + 1
        noise == NoiseAt(tick)
        sim1  == apply_control_actions([sim0 EXCEPT !.tick = tick], noise)
        limestone_quality_drift == sim1.limestone_quality_drift + tick
        alt_fuel_moisture == sim1.alt_fuel_moisture + tick
        target_lsf == Clip(sim1.target_lsf + noise, 975, 985)
        \* raw mill
        clay_pct == Clip(180 - ((limestone_quality_drift - 105000) * 5) \div 100, 150, 220)
        limestone_pct == 1000 - clay_pct - 40
        material_hardness == (12 * limestone_pct + 8 * clay_pct) \div 10     \* thousandths
        raw_mill_power_kw == ((18000 + material_hardness * 5) * sim1.target_production_rate)
                                \div 1000
        sec_kwh_ton == (raw_mill_power_kw * 10) \div sim1.target_production_rate + 2 * noise
        mill_throughput_tph == sim1.target_production_rate + 20 * noise
        mill_power_kwh_ton == sec_kwh_ton + 5 * noise
        mill_vibration_mm_s == Clip(25 + (material_hardness * 3) \div 100
                                       + mill_throughput_tph \div 100 + 3 * noise, 10, 80)
        \* pyroprocessing
        trad_fuel_rate_kg_hr == Clip(sim1.actual_values.trad_fuel_rate_kg_hr
                                        + 400 * noise + 3 * tick, 9000, 18000)
        alt_fuel_rate_kg_hr == Clip(sim1.actual_values.alt_fuel_rate_kg_hr
                                        + 200 * noise + (10 * tick) \div 8, 1000, 10000)
        raw_meal_feed_rate_tph == sim1.actual_values.raw_meal_feed_rate_tph
        kiln_speed_rpm == sim1.actual_values.kiln_speed_rpm
        id_fan_speed_pct == sim1.actual_values.id_fan_speed_pct
        fuel_deviation == (trad_fuel_rate_kg_hr - 12000) + (alt_fuel_rate_kg_hr - 4000) \div 2
        burning_zone_temp_c == Clip(14500 + (fuel_deviation * 15) \div 100 + 120 * noise + tick,
                                    14000, 15000)
        kiln_motor_torque_pct == Clip(650 + (raw_meal_feed_rate_tph * 13) \div 100
                                          + (40 - kiln_speed_rpm) * 5 + 30 * noise, 500, 850)
        id_fan_power_kw == Clip((id_fan_speed_pct * id_fan_speed_pct * id_fan_speed_pct)
                                   \div 234375, 500, 3000)
        kiln_inlet_o2_pct == Clip(((id_fan_speed_pct - 700) * 105) \div 1000 + 3 * noise, 20, 60)
        limestone_to_clay_ratio == IF clay_pct > 0
                                   THEN (limestone_pct * 100 + clay_pct \div 2) \div clay_pct
                                   ELSE 400
    IN  << [sim1 EXCEPT !.limestone_quality_drift = limestone_quality_drift,
                        !.alt_fuel_moisture = alt_fuel_moisture,
                        !.target_lsf = target_lsf],
           [tick |-> tick,
            raw_mill |-> [limestone_feeder_pct |-> limestone_pct,
                          clay_feeder_pct      |-> clay_pct,
                          power_kw             |-> Round0(raw_mill_power_kw),
                          mill_power_kwh_ton   |-> mill_power_kwh_ton,
                          mill_vibration_mm_s  |-> mill_vibration_mm_s,
                          mill_throughput_tph  |-> mill_throughput_tph],
            kiln |-> [burning_zone_temp_c     |-> burning_zone_temp_c,
                      trad_fuel_rate_kg_hr    |-> Round0(trad_fuel_rate_kg_hr),
                      alt_fuel_rate_kg_hr     |-> Round0(alt_fuel_rate_kg_hr),
                      raw_meal_feed_rate_tph  |-> raw_meal_feed_rate_tph,
                      limestone_to_clay_ratio |-> limestone_to_clay_ratio,
                      kiln_speed_rpm          |-> kiln_speed_rpm,
                      kiln_motor_torque_pct   |-> kiln_motor_torque_pct,
                      id_fan_speed_pct        |-> id_fan_speed_pct,
                      id_fan_power_kw         |-> Round0(id_fan_power_kw),
                      kiln_inlet_o2_pct       |-> kiln_inlet_o2_pct]] >>

(***************************************************************************)
(* The plant history store (main.py 770-771, 1014-1021, 1163-1165).        *)
(***************************************************************************)
\* the capacity of the store (main.py 1019: 1000), scaled so that the store fills
HISTORY_CAPACITY == 21

\* a faulty variant of AppendPlantData: at capacity the newest record is removed
AppendPlantDataPopNewest(history, data) ==
    LET appended == Append(history, data)
    IN  IF Len(appended) > HISTORY_CAPACITY
        THEN SubSeq(appended, 1, Len(appended) - 1)
        ELSE appended

\* plant_data_history.append(data), then pop(0) when longer than the capacity
AppendPlantData(history, data) ==
    LET appended == Append(history, data)
    IN  IF Len(appended) > HISTORY_CAPACITY THEN Tail(appended) ELSE appended

\* the Python slice seq[start:]
SliceFrom(seq, start) ==
    LET from == IF start < 0 THEN Max2(Len(seq) + start, 0) ELSE Min2(start, Len(seq))
    IN  SubSeq(seq, from + 1, Len(seq))

get_recent_data(history, n) ==
    IF Len(history) >= n THEN SliceFrom(history, -n) ELSE history

\* a faulty variant of returns_store_list: when the store is shorter than n the
\* caller is handed plant_data_history itself, without the [:]
returns_store_list_when_short(history, n) == Len(history) < n

\* whether the list get_recent_data returns is the store's own list object: both
\* branches of main.py 1165 build a new list, plant_data_history[-n:] and
\* plant_data_history[:], under plant_data_lock
returns_store_list(history, n) == FALSE

\* what a reader holds after the store changed to history: a reader holding the
\* store's own list sees the change, a reader holding a copy does not
ReaderView(fr, history) ==
    IF fr.pc = "trials" /\ fr.data_is_store THEN [fr EXCEPT !.data = history] ELSE fr

\* generate_initial_data (main.py 148-153, called at 2185) stores this many records
INITIAL_RECORDS == 20

(***************************************************************************)
(* Bound resolution, sampling and scoring inside optimize_with_limits      *)
(* (main.py 1204-1297).                                                    *)
(***************************************************************************)
\* constraint_dict: the request's constraint_ranges as a dict, later entries winning
RECURSIVE ConstraintDict(_)
ConstraintDict(constraint_ranges) ==
    IF constraint_ranges = <<>>
    THEN EmptyDict
    ELSE LET n  == Len(constraint_ranges)
             cr == constraint_ranges[n]
         IN  DictUpdate(ConstraintDict(SubSeq(constraint_ranges, 1, n - 1)),
                        [v \in {cr.variable} |-> <<cr.min_value, cr.max_value>>])

\* the values of var found in the window (main.py 1223-1236): kpi and production
\* hold no optimizer variable, raw_mill is looked up before kiln
HistoryValues(data, var) ==
    {IF var \in DOMAIN data[i].raw_mill THEN data[i].raw_mill[var] ELSE data[i].kiln[var] :
        i \in {j \in 1..Len(data) : var \in DOMAIN data[j].raw_mill \/ var \in DOMAIN data[j].kiln}}

\* a faulty variant of SamplingBounds: the empirical range is looked up first
SamplingBoundsEmpiricalFirst(var, limits_dict, data) ==
    LET vals == HistoryValues(data, var)
    IN  IF vals # {}
        THEN <<(SetMin(vals) * 9) \div 10, (SetMax(vals) * 11) \div 10>>
        ELSE IF var \in DOMAIN limits_dict
             THEN limits_dict[var]
             ELSE Get(ENGINEERING_LIMITS, var, <<0, 1000>>)

\* the sampling range <<low, high>> of a control variable (main.py 1219-1242)
SamplingBounds(var, limits_dict, data) ==
    IF var \in DOMAIN limits_dict
    THEN limits_dict[var]
    ELSE LET vals == HistoryValues(data, var)
         IN  IF vals # {}
             THEN <<(SetMin(vals) * 9) \div 10, (SetMax(vals) * 11) \div 10>>
             ELSE Get(ENGINEERING_LIMITS, var, <<0, 1000>>)

\* the <<min_val, max_val>> a predicted constraint is penalised against (main.py 1263-1268)
PenaltyLimits(var, limits_dict, constraint_dict) ==
    IF var \in DOMAIN limits_dict THEN limits_dict[var]
    ELSE IF var \in DOMAIN constraint_dict THEN constraint_dict[var]
    ELSE Get(ENGINEERING_LIMITS, var, <<0, 10000>>)

\* a faulty variant of ViolationPenalty: only the upper limit is penalised
ViolationPenaltyUpperOnly(predicted_value, min_val, max_val) ==
    IF predicted_value > max_val
    THEN (predicted_value - max_val) * 1000
    ELSE 0

\* what one constraint adds to constraint_penalty (main.py 1271-1273): violation * 10,
\* in thousandths like the economic value it is subtracted from
ViolationPenalty(predicted_value, min_val, max_val) ==
    IF predicted_value < min_val \/ predicted_value > max_val
    THEN Max3(min_val - predicted_value, predicted_value - max_val, 0) * 1000
    ELSE 0

\* a faulty variant of ConstraintPenalty: the critical variables (O2, temperature,
\* torque) weigh twice what the operational ones weigh
RECURSIVE SeverityWeightedPenalty(_, _, _, _)
SeverityWeightedPenalty(constraints, predicted_constraints, limits_dict, constraint_dict) ==
    IF constraints = <<>>
    THEN 0
    ELSE LET var == Head(constraints)
             lim == PenaltyLimits(var, limits_dict, constraint_dict)
             weight == IF var \in {"kiln_inlet_o2_pct", "burning_zone_temp_c",
                                   "kiln_motor_torque_pct"} THEN 2 ELSE 1
             here == IF var \in DOMAIN predicted_constraints
                     THEN weight * ViolationPenalty(predicted_constraints[var], lim[1], lim[2])
                     ELSE 0
         IN  here + SeverityWeightedPenalty(Tail(constraints), predicted_constraints,
                                            limits_dict, constraint_dict)

\* the loop over variables['constraints'] (main.py 1258-1274)
RECURSIVE ConstraintPenalty(_, _, _, _)
ConstraintPenalty(constraints, predicted_constraints, limits_dict, constraint_dict) ==
    IF constraints = <<>>
    THEN 0
    ELSE LET var == Head(constraints)
             lim == PenaltyLimits(var, limits_dict, constraint_dict)
             here == IF var \in DOMAIN predicted_constraints
                     THEN ViolationPenalty(predicted_constraints[var], lim[1], lim[2])
                     ELSE 0
         IN  here + ConstraintPenalty(Tail(constraints), predicted_constraints,
                                      limits_dict, constraint_dict)

\* The sampler (optuna, outside the sources) answers suggest_float(var, low, high)
\* with a value of [low, high].  The values lie on the grid
\* low + k * (high - low) / SampleSteps.  During the start-up trials (main.py 1302:
\* n_startup_trials=20) the sampler does not read the study: a run's start-up
\* trials are one of two sweeps over the grid, upwards from low or downwards from
\* high.  After them the sampler is guided by the trials of the study.
SampleSteps == 2
Seeds == {0, 1}

SamplePoint(seed, number) ==
    IF seed = 0 THEN number % (SampleSteps + 1)
                ELSE SampleSteps - (number % (SampleSteps + 1))

suggest_float(low, high, point) == low + ((high - low) * point) \div SampleSteps

\* the trial budget (main.py 1304: n_trials=100) and the start-up trials
\* (main.py 1302: n_startup_trials=20), scaled down
n_trials == 4
n_startup_trials == 2

SeqToSet(seq) == {seq[i] : i \in 1..Len(seq)}

\* a faulty variant of BestTrial: the first trial with the smallest value
BestTrialMinimized(trial_history) ==
    LET worst == SetMin({trial_history[i].objective_score : i \in 1..Len(trial_history)})
        first == SetMin({i \in 1..Len(trial_history) :
                            trial_history[i].objective_score = worst})
    IN  trial_history[first]

\* study.best_trial: the first trial with the largest value
BestTrial(trial_history) ==
    LET best == SetMax({trial_history[i].objective_score : i \in 1..Len(trial_history)})
        first == SetMin({i \in 1..Len(trial_history) : trial_history[i].objective_score = best})
    IN  trial_history[first]

\* the grid point the sampler answers trial number with: a guided trial repeats the
\* point of the best trial so far, which is a start-up trial, as a guided trial
\* only ties with the trial it repeats
sample_point(fr, number) ==
    IF number < n_startup_trials
    THEN SamplePoint(fr.seed, number)
    ELSE SamplePoint(fr.seed, BestTrial(fr.trial_history).trial)

\* objective(trial) (main.py 1214-1297): <<raised, trial_data>>; suggest_float raises
\* ValueError when low > high
objective(fr, number, model, lsf_model, pricing) ==
    LET variables == OPTIMIZER_VARIABLES[fr.segment]
        opt_names == SeqToSet(variables.optimization)
        bounds == [var \in opt_names |-> SamplingBounds(var, fr.limits_dict, fr.data)]
        raised == \E var \in opt_names : bounds[var][1] > bounds[var][2]
        optimization_vars ==
            [var \in opt_names |->
                suggest_float(bounds[var][1], bounds[var][2], sample_point(fr, number))]
        predicted_constraints ==
            IF fr.segment = "Clinkerization"
            THEN predict_constraint_responses(model, lsf_model, optimization_vars,
                                              fr.current_constraints)
            ELSE EmptyDict
        constraint_penalty ==
            ConstraintPenalty(variables.constraints, predicted_constraints,
                              fr.limits_dict, fr.constraint_dict)
        economic_value == calculate_economic_value(optimization_vars, pricing)
    IN  <<raised,
          [trial |-> number,
           economic_value |-> economic_value,
           constraint_penalty |-> constraint_penalty,
           objective_score |-> economic_value - constraint_penalty,
           optimization_vars |-> optimization_vars,
           constraint_vars |-> predicted_constraints]>>

\* the final report's violation list (main.py 1328-1337): <<var, value, min_val, max_val>>
RECURSIVE FinalViolations(_, _, _)
FinalViolations(constraints, best_params, limits_dict) ==
    IF constraints = <<>>
    THEN <<>>
    ELSE LET var  == Head(constraints)
             lim  == IF var \in DOMAIN limits_dict THEN limits_dict[var]
                     ELSE Get(ENGINEERING_LIMITS, var, <<0, 10000>>)
             rest == FinalViolations(Tail(constraints), best_params, limits_dict)
         IN  IF var \in DOMAIN best_params
                  /\ (best_params[var] < lim[1] \/ best_params[var] > lim[2])
             THEN <<<<var, best_params[var], lim[1], lim[2]>>>> \o rest
             ELSE rest

\* main.py 1306-1351: the OptimizationResult of a run that completed its trials
FinalResult(fr, model, lsf_model, pricing) ==
    LET variables == OPTIMIZER_VARIABLES[fr.segment]
        best == BestTrial(fr.trial_history)
        clinker == fr.segment = "Clinkerization"
        final_constraints ==
            predict_constraint_responses(model, lsf_model, best.optimization_vars,
                                         fr.current_constraints)
        best_params == IF clinker THEN DictUpdate(best.optimization_vars, final_constraints)
                                  ELSE best.optimization_vars
    IN  [segment |-> fr.segment,
         optimization_type |-> fr.limit_type,
         suggested_targets |-> best_params,
         soft_sensors |-> IF clinker
                          THEN calculate_soft_sensors(best_params, final_constraints,
                                                      fr.current_state)
                          ELSE EmptyDict,
         optimization_score |-> best.objective_score,
         economic_value |-> calculate_economic_value(best_params, pricing),
         constraint_violations |-> IF clinker
                                   THEN FinalViolations(variables.constraints, best_params,
                                                        fr.limits_dict)
                                   ELSE <<>>,
         model_type |-> "hybrid_fp_ml"]

(***************************************************************************)
(* What a POST /optimize_targets reads from outside: the request body      *)
(* (OptimizeRequest, main.py 881-886), the optimizer_settings document     *)
(* (main.py 1098-1123: <<pricing or None, mlFpRatio>>) and the apclimits   *)
(* collection (main.py 1067-1096).                                         *)
(***************************************************************************)
OptimizeRequest(segment, n_data, constraint_ranges) ==
    [segment |-> segment, n_data |-> n_data, constraint_ranges |-> constraint_ranges,
     use_custom_pricing |-> FALSE, custom_pricing |-> None]

\* no Firebase, or no settings document: fetch_optimizer_settings_from_firebase
\* answers (None, 0.3)
DefaultSettings == [pricing |-> None, ml_fp_ratio |-> 3]

\* a settings document with its own prices and an ML/FP ratio
FuelFreePricing == [PricingConfig EXCEPT !.traditional_fuel_price_per_kg = 0,
                                         !.alternative_fuel_price_per_kg = 0]
StoredSettings(ml_fp_ratio) == [pricing |-> Some(FuelFreePricing), ml_fp_ratio |-> ml_fp_ratio]

\* apclimits tables; a document without ll / hl reads as (0, 100)
OperatingApcLimits ==
    [limestone_to_clay_ratio |-> <<350, 450>>,
     lsf                     |-> <<975, 985>>,
     id_fan_speed_pct        |-> <<0, 1000>>,
     burning_zone_temp_c     |-> <<14400, 14600>>,
     id_fan_power_kw         |-> <<1500, 2500>>]
InvertedApcLimits == [kiln_speed_rpm |-> <<40, 30>>]

\* a table that pins the feed rate (ll = hl) and keeps a torque ceiling and a
\* fan-power floor
TightApcLimits ==
    [raw_meal_feed_rate_tph |-> <<1500, 1500>>,
     kiln_speed_rpm         |-> <<25, 35>>,
     id_fan_speed_pct       |-> <<700, 800>>,
     kiln_motor_torque_pct  |-> <<500, 763>>,
     id_fan_power_kw        |-> <<1500, 3000>>]

\* user ranges for variables the operating table and ENGINEERING_LIMITS also bound
UserRanges == << [variable |-> "burning_zone_temp_c", min_value |-> 14000, max_value |-> 14450],
                 [variable |-> "kiln_motor_torque_pct", min_value |-> 600, max_value |-> 800] >>

Scenarios ==
    { [request |-> OptimizeRequest("Clinkerization", 50, <<>>),
       settings |-> DefaultSettings, apc_limits |-> EmptyDict],
      [request |-> OptimizeRequest("Clinkerization", 50, UserRanges),
       settings |-> StoredSettings(10), apc_limits |-> OperatingApcLimits],
      [request |-> OptimizeRequest("Clinkerization", 5, UserRanges),
       settings |-> StoredSettings(15), apc_limits |-> EmptyDict],
      [request |-> OptimizeRequest("Clinkerization", 50, <<>>),
       settings |-> DefaultSettings, apc_limits |-> InvertedApcLimits],
      [request |-> OptimizeRequest("Clinkerization", 50, <<>>),
       settings |-> StoredSettings(0), apc_limits |-> TightApcLimits],
      [request |-> OptimizeRequest("Clinkerization", -INITIAL_RECORDS, <<>>),
       settings |-> DefaultSettings, apc_limits |-> EmptyDict],
      [request |-> OptimizeRequest("Raw Materials & Grinding", 50, <<>>),
       settings |-> DefaultSettings, apc_limits |-> EmptyDict],
      [request |-> OptimizeRequest("Finish Mill", 50, <<>>),
       settings |-> DefaultSettings, apc_limits |-> EmptyDict] }

\* the pickled LSF soft sensor (main.py 108-145): not loaded, or loaded; a loaded
\* model is held as the raw value it predicts
LsfModels == {None, Some(960)}

(***************************************************************************)
(* State.                                                                  *)
(***************************************************************************)
VARIABLES
    server,               \* "loading" while main.py is imported, then "serving"
    plant_simulator,      \* main.py 769
    plant_data_history,   \* main.py 770
    hybrid_model,         \* main.py 486
    ml_models,            \* main.py 145: the loaded LSF model
    pricing_config,       \* main.py 101
    optimization_history, \* main.py 104
    post,                 \* the frame of optimize_targets_api_post
    run,                  \* the frame of the optimize_with_limits call in progress
    trainings,            \* history: the window length of each update_ml_model call of
                          \* the current request
    last_window,          \* history: the window length of the latest update_ml_model call
    views,                \* history: what each run of the current request evaluated against
    threads,              \* the position of each thread-pool thread serving a sync endpoint
    plant_data_lock,      \* main.py 771: None, or the thread holding the lock
    optimizer_state,      \* the Firestore document optimizer_state/current, or None
    clock,                \* time.time(), in seconds
    background_task,      \* main.py 21: None, or the task the variable refers to
    optimizer_enabled,    \* main.py 22
    tasks,                \* the optimizer_worker_loop tasks created so far, by status
    standalone,           \* the optimizer_worker.py process: "absent" or "polling"
    stops,                \* the tasks that suspended stop handlers are awaiting
    polled,               \* the workers that have polled since the clock last moved
    last_attempt          \* history: the run the worker process started since the clock last moved

\* the plant, the model and the request in progress
plantVars == <<server, plant_simulator, plant_data_history, hybrid_model, ml_models,
               pricing_config, optimization_history, post, run, trainings, last_window,
               views, threads, plant_data_lock>>

\* the optimizer schedule and its workers
schedulerVars == <<optimizer_state, clock, background_task, optimizer_enabled, tasks,
                   standalone, stops, polled, last_attempt>>

vars == <<server, plant_simulator, plant_data_history, hybrid_model, ml_models,
          pricing_config, optimization_history, post, run, trainings, last_window, views,
          threads, plant_data_lock, optimizer_state, clock, background_task,
          optimizer_enabled, tasks, standalone, stops, polled, last_attempt>>

\* the thread-pool threads the model follows: sync endpoints (def) run on them, the
\* async endpoints and optimize_with_limits run on the event loop's thread.  One
\* pool thread beside the event loop's thread is the smallest pool with two
\* operations running at once
ThreadPool == {1}

\* the requests one pool thread serves in the behaviours the model follows
MaxServed == 1

\* time.time() when the module is imported, in seconds (scaled), and the time the
\* model follows from there
Epoch == 1000
MaxElapsed == 20

\* asyncio.sleep(10) between two polls (main.py 1850, optimizer_worker.py 182)
POLL_INTERVAL == 10

\* the timer every reset stores (main.py 1905, 1947, 2067; optimizer_worker.py 145)
TIMER_RESET == 300

\* a timer the frontend stores, shorter than the time the model follows
ShortTimer == 15

\* the optimizer_worker_loop tasks asyncio.create_task returns, in creation order
TaskIds == {1, 2, 3}

IdleThread == [pc |-> "idle", served |-> 0]

\* the simulator steps the model follows (initial records included)
MaxTick == 23

OPTIMIZATION_HISTORY_CAPACITY == 100

NoRun == [pc |-> "none"]

NoPost == [pc |-> "idle"]

Init ==
    /\ server = "loading"
    /\ plant_simulator = NewPlantSimulator
    /\ plant_data_history = <<>>
    /\ hybrid_model = NewHybridProcessModel
    /\ ml_models \in LsfModels
    /\ pricing_config = PricingConfig
    /\ optimization_history = <<>>
    /\ post = NoPost
    /\ run = NoRun
    /\ trainings = <<>>
    /\ last_window = -1
    /\ views = <<>>
    /\ threads = [t \in ThreadPool |-> IdleThread]
    /\ plant_data_lock = None
    /\ optimizer_state = None
    /\ clock = Epoch
    /\ background_task = None
    /\ optimizer_enabled = TRUE
    /\ tasks = <<>>
    /\ standalone = "absent"
    /\ stops = {}
    /\ polled = {}
    /\ last_attempt = None

(***************************************************************************)
(* store_plant_data (main.py 1014-1021): one simulator step, appended to   *)
(* the history under plant_data_lock.                                      *)
(***************************************************************************)
store_plant_data ==
    LET s == step(plant_simulator)
    IN  /\ plant_simulator' = s[1]
        /\ plant_data_history' = AppendPlantData(plant_data_history, s[2])

\* one iteration of generate_initial_data's loop, run while the module is imported
GenerateInitialData ==
    /\ server = "loading"
    /\ store_plant_data
    /\ server' = IF Len(plant_data_history') >= INITIAL_RECORDS THEN "serving" ELSE "loading"
    /\ UNCHANGED <<hybrid_model, ml_models, pricing_config, optimization_history, post, run,
                   trainings, last_window, views>>
    /\ UNCHANGED <<threads, plant_data_lock>>
    /\ UNCHANGED schedulerVars

\* GET /live_plant_state (main.py 1023-1029), served on a worker thread
GetLivePlantState ==
    /\ server = "serving"
    /\ plant_simulator.tick < MaxTick
    /\ store_plant_data
    /\ run' = ReaderView(run, plant_data_history')
    /\ UNCHANGED <<server, hybrid_model, ml_models, pricing_config, optimization_history,
                   post, trainings, last_window, views>>
    /\ UNCHANGED <<threads, plant_data_lock>>
    /\ UNCHANGED schedulerVars

(***************************************************************************)
(* POST /optimize_targets (main.py 1357-1442).                             *)
(***************************************************************************)
\* main.py 1366-1381: settings, pricing, ML weight, APC limits
PostBegin(sc) ==
    /\ server = "serving"
    /\ post.pc \in {"idle", "done", "failed"}
    /\ hybrid_model' = set_ml_weight(hybrid_model, sc.settings.ml_fp_ratio)
    /\ post' = [pc |-> "apc",
                request |-> sc.request,
                pricing |-> IF sc.settings.pricing # None THEN sc.settings.pricing[1]
                            ELSE IF sc.request.use_custom_pricing
                                      /\ sc.request.custom_pricing # None
                                 THEN sc.request.custom_pricing[1]
                                 ELSE pricing_config,
                apc_limits |-> sc.apc_limits,
                apc_result |-> None, apc_history |-> <<>>,
                eng_result |-> None, eng_history |-> <<>>,
                response |-> None]
    /\ trainings' = <<>>
    /\ views' = <<>>
    /\ UNCHANGED <<server, plant_simulator, plant_data_history, ml_models, pricing_config,
                   optimization_history, run, last_window>>
    /\ UNCHANGED <<threads, plant_data_lock>>
    /\ UNCHANGED schedulerVars

\* the caller's side of a run that returned the pair (result, trial_history)
\* (main.py 1385 and 1396)
Returned(result, trial_history) ==
    IF post.pc = "apc"
    THEN [post EXCEPT !.pc = "engineering", !.apc_result = result,
                      !.apc_history = trial_history]
    ELSE [post EXCEPT !.pc = "store", !.eng_result = result,
                      !.eng_history = trial_history]

\* optimize_with_limits up to the study (main.py 1178-1211)
BeginRun ==
    /\ post.pc \in {"apc", "engineering"}
    /\ run.pc = "none"
    /\ plant_data_lock = None      \* get_recent_data takes plant_data_lock
    /\ LET data == get_recent_data(plant_data_history, post.request.n_data)
       IN  IF data = <<>>
           THEN \* returns {"error": ...}; unpacking that dict into two names raises
                \* ValueError in the handler, which nothing catches
                /\ post' = [post EXCEPT !.pc = "failed",
                                        !.response = Some([status |-> 500,
                                                           error |-> "ValueError"])]
                /\ UNCHANGED <<plant_simulator, hybrid_model, run, trainings, last_window,
                               views>>
           ELSE /\ plant_simulator.tick < MaxTick
                /\ hybrid_model' = update_ml_model(hybrid_model, data)[2]
                /\ trainings' = Append(trainings, Len(data))
                /\ last_window' = Len(data)
                /\ LET s == step(plant_simulator)
                       current_state == s[2]
                   IN  /\ plant_simulator' = s[1]
                       /\ IF post.request.segment \notin DOMAIN OPTIMIZER_VARIABLES
                          THEN \* KeyError, caught at main.py 1353: returns (None, [])
                               /\ post' = Returned(None, <<>>)
                               /\ UNCHANGED <<run, views>>
                          ELSE /\ \E seed \in Seeds :
                                    run' = [pc |-> "trials",
                                            segment |-> post.request.segment,
                                            limit_type |-> IF post.pc = "apc" THEN "apc_limits"
                                                           ELSE "engineering_limits",
                                            limits_dict |-> IF post.pc = "apc" THEN post.apc_limits
                                                            ELSE ENGINEERING_LIMITS,
                                            data |-> data,
                                            data_is_store |->
                                               returns_store_list(plant_data_history,
                                                                  post.request.n_data),
                                            current_state |-> current_state,
                                            current_constraints |->
                                               [v \in BlendedVars |-> current_state.kiln[v]],
                                            constraint_dict |->
                                               ConstraintDict(post.request.constraint_ranges),
                                            seed |-> seed,
                                            trial_history |-> <<>>]
                               /\ views' = Append(views, [data |-> data,
                                                          current_state |-> current_state,
                                                          ml_model |-> hybrid_model'.ml_model])
                               /\ UNCHANGED post
    /\ UNCHANGED <<server, plant_data_history, ml_models, pricing_config, optimization_history>>
    /\ UNCHANGED <<threads, plant_data_lock>>
    /\ UNCHANGED schedulerVars

\* a faulty variant of Trial: the budget is tested after the trial, not before it
TrialPastBudget ==
    /\ run.pc = "trials"
    /\ Len(run.trial_history) <= n_trials
    /\ LET o == objective(run, Len(run.trial_history), hybrid_model, ml_models, post.pricing)
       IN  IF o[1]
           THEN /\ post' = Returned(None, <<>>)
                /\ run' = NoRun
           ELSE /\ run' = [run EXCEPT !.trial_history = Append(@, o[2])]
                /\ UNCHANGED post
    /\ UNCHANGED <<server, plant_simulator, plant_data_history, hybrid_model, ml_models,
                   pricing_config, optimization_history, trainings, last_window, views>>
    /\ UNCHANGED <<threads, plant_data_lock>>
    /\ UNCHANGED schedulerVars

\* one call of objective by study.optimize (main.py 1214-1297, 1304)
Trial ==
    /\ run.pc = "trials"
    /\ Len(run.trial_history) < n_trials
    /\ LET o == objective(run, Len(run.trial_history), hybrid_model, ml_models, post.pricing)
       IN  IF o[1]
           THEN \* ValueError out of study.optimize, caught at main.py 1353
                /\ post' = Returned(None, <<>>)
                /\ run' = NoRun
           ELSE /\ run' = [run EXCEPT !.trial_history = Append(@, o[2])]
                /\ UNCHANGED post
    /\ UNCHANGED <<server, plant_simulator, plant_data_history, hybrid_model, ml_models,
                   pricing_config, optimization_history, trainings, last_window, views>>
    /\ UNCHANGED <<threads, plant_data_lock>>
    /\ UNCHANGED schedulerVars

\* a faulty variant of FinishRun: the run reports on the trials evaluated so far
FinishRunPartial ==
    /\ run.pc = "trials"
    /\ Len(run.trial_history) >= 1
    /\ post' = Returned(Some(FinalResult(run, hybrid_model, ml_models, post.pricing)),
                        run.trial_history)
    /\ run' = NoRun
    /\ UNCHANGED <<server, plant_simulator, plant_data_history, hybrid_model, ml_models,
                   pricing_config, optimization_history, trainings, last_window, views>>
    /\ UNCHANGED <<threads, plant_data_lock>>
    /\ UNCHANGED schedulerVars

\* the study is over: the final report and the return (main.py 1306-1351)
FinishRun ==
    /\ run.pc = "trials"
    /\ Len(run.trial_history) = n_trials
    /\ post' = Returned(Some(FinalResult(run, hybrid_model, ml_models, post.pricing)),
                        run.trial_history)
    /\ run' = NoRun
    /\ UNCHANGED <<server, plant_simulator, plant_data_history, hybrid_model, ml_models,
                   pricing_config, optimization_history, trainings, last_window, views>>
    /\ UNCHANGED <<threads, plant_data_lock>>
    /\ UNCHANGED schedulerVars

\* main.py 1405-1442: the global history record, then the response; building a
\* DualOptimizationResponse from a None result raises a validation error
StoreAndRespond ==
    /\ post.pc = "store"
    /\ LET record == [segment |-> post.request.segment,
                      apc_economic_value |-> IF post.apc_result # None
                                             THEN post.apc_result[1].economic_value ELSE 0,
                      eng_economic_value |-> IF post.eng_result # None
                                             THEN post.eng_result[1].economic_value ELSE 0,
                      apc_history |-> post.apc_history,
                      eng_history |-> post.eng_history]
           appended == Append(optimization_history, record)
       IN  optimization_history' =
              IF Len(appended) > OPTIMIZATION_HISTORY_CAPACITY
              THEN SliceFrom(appended, -OPTIMIZATION_HISTORY_CAPACITY)
              ELSE appended
    /\ IF post.apc_result = None \/ post.eng_result = None
       THEN post' = [post EXCEPT !.pc = "failed",
                                 !.response = Some([status |-> 500,
                                                    error |-> "ValidationError"])]
       ELSE post' = [post EXCEPT !.pc = "done",
                                 !.response =
                                    Some([status |-> 200,
                                          apc_optimization |-> post.apc_result[1],
                                          engineering_optimization |-> post.eng_result[1],
                                          optimization_history |->
                                              post.apc_history \o post.eng_history,
                                          pricing_details |-> post.pricing])]
    /\ UNCHANGED <<server, plant_simulator, plant_data_history, hybrid_model, ml_models,
                   pricing_config, run, trainings, last_window, views>>
    /\ UNCHANGED <<threads, plant_data_lock>>
    /\ UNCHANGED schedulerVars

Next ==
    \/ GenerateInitialData
    \/ GetLivePlantState
    \/ \E sc \in Scenarios : PostBegin(sc)
    \/ BeginRun
    \/ Trial
    \/ FinishRun
    \/ StoreAndRespond

Spec == Init /\ [][Next]_vars

\* Trial and FinishRun change run whenever their guards hold, so these state
\* predicates are ENABLED <<Trial>>_vars and ENABLED <<FinishRun>>_vars
TrialEnabled == run.pc = "trials" /\ Len(run.trial_history) < n_trials
FinishRunEnabled == run.pc = "trials" /\ Len(run.trial_history) = n_trials

\* study.optimize is a loop of the handler's own coroutine and the return follows
\* it, so a run in progress is not suspended for ever: weak fairness of Trial
\* and of FinishRun, WF_vars(Trial) /\ WF_vars(FinishRun), with ENABLED written out
FairSpec ==
    /\ Spec
    /\ ([]<>(~TrialEnabled) \/ []<><<Trial>>_vars)
    /\ ([]<>(~FinishRunEnabled) \/ []<><<FinishRun>>_vars)

(***************************************************************************)
(* The sync endpoints at the grain of their threads.  GET /live_plant_state *)
(* and POST /apply_optimizer_targets are def endpoints: each request runs   *)
(* on a thread of the pool, beside the other pool threads and beside the    *)
(* event loop's thread, which runs optimize_with_limits.                    *)
(* store_plant_data (main.py 1014-1021) calls plant_simulator.step()        *)
(* before it takes plant_data_lock; step (main.py 514-676) reads and        *)
(* writes the simulator's attributes one after the other.                   *)
(***************************************************************************)
\* the targets a POST /apply_optimizer_targets request carries
\* the request the worker sends, with no settings document and no APC limits stored
DefaultScenario ==
    [request |-> OptimizeRequest("Clinkerization", 50, <<>>),
     settings |-> DefaultSettings, apc_limits |-> EmptyDict]

TargetInputs ==
    { [trad_fuel_rate_kg_hr |-> 13000, alt_fuel_rate_kg_hr |-> 5000,
       raw_meal_feed_rate_tph |-> 1600, kiln_speed_rpm |-> 40, id_fan_speed_pct |-> 800] }

\* a pool thread enters plant_simulator.step(): it starts reading the attributes
LiveStepEnter(t) ==
    /\ server = "serving"
    /\ threads[t].pc = "idle"
    /\ threads[t].served < MaxServed
    /\ plant_simulator.tick < MaxTick
    /\ threads' = [threads EXCEPT ![t] = [pc |-> "in_step", served |-> @.served + 1,
                                          base |-> plant_simulator]]
    /\ UNCHANGED <<server, plant_simulator, plant_data_history, hybrid_model, ml_models,
                   pricing_config, optimization_history, post, run, trainings, last_window,
                   views, plant_data_lock>>
    /\ UNCHANGED schedulerVars

\* the thread leaves step(): the attributes now hold a step computed from what the
\* thread saw.  Without interference that is the state at entry; when another
\* operation wrote the simulator meanwhile, the thread saw either the old values
\* (the other write is lost) or the new ones
LiveStepExit(t) ==
    /\ threads[t].pc = "in_step"
    /\ \E seen \in {threads[t].base, plant_simulator} :
          LET s == step(seen)
          IN  /\ plant_simulator' = s[1]
              /\ threads' = [threads EXCEPT ![t] = [pc |-> "stepped", served |-> @.served,
                                                    data |-> s[2]]]
    /\ UNCHANGED <<server, plant_data_history, hybrid_model, ml_models, pricing_config,
                   optimization_history, post, run, trainings, last_window, views,
                   plant_data_lock>>
    /\ UNCHANGED schedulerVars

\* with plant_data_lock: (main.py 1016)
LiveLockAcquire(t) ==
    /\ threads[t].pc = "stepped"
    /\ plant_data_lock = None
    /\ plant_data_lock' = Some(t)
    /\ threads' = [threads EXCEPT ![t] = [@ EXCEPT !.pc = "locked"]]
    /\ UNCHANGED <<server, plant_simulator, plant_data_history, hybrid_model, ml_models,
                   pricing_config, optimization_history, post, run, trainings, last_window,
                   views>>
    /\ UNCHANGED schedulerVars

\* the critical section and the release (main.py 1017-1021)
LiveAppendRelease(t) ==
    /\ threads[t].pc = "locked"
    /\ plant_data_lock = Some(t)
    /\ plant_data_history' = AppendPlantData(plant_data_history, threads[t].data)
    /\ run' = ReaderView(run, plant_data_history')
    /\ plant_data_lock' = None
    /\ threads' = [threads EXCEPT ![t] = [pc |-> "idle", served |-> @.served]]
    /\ UNCHANGED <<server, plant_simulator, hybrid_model, ml_models, pricing_config,
                   optimization_history, post, trainings, last_window, views>>
    /\ UNCHANGED schedulerVars

\* POST /apply_optimizer_targets (main.py 1510-1522, 672-676), on a pool thread
ApplyOptimizerTargets(t, targets) ==
    /\ server = "serving"
    /\ threads[t].pc = "idle"
    /\ threads[t].served < MaxServed
    /\ plant_simulator' = [plant_simulator EXCEPT !.optimizer_targets = Some(targets),
                                                  !.control_active = TRUE]
    /\ threads' = [threads EXCEPT ![t] = [pc |-> "idle", served |-> @.served + 1]]
    /\ UNCHANGED <<server, plant_data_history, hybrid_model, ml_models, pricing_config,
                   optimization_history, post, run, trainings, last_window, views,
                   plant_data_lock>>
    /\ UNCHANGED schedulerVars

ThreadNext ==
    \/ GenerateInitialData
    \/ \E t \in ThreadPool : LiveStepEnter(t)
    \/ \E t \in ThreadPool : LiveStepExit(t)
    \/ \E t \in ThreadPool : LiveLockAcquire(t)
    \/ \E t \in ThreadPool : LiveAppendRelease(t)
    \/ \E t \in ThreadPool : \E targets \in TargetInputs : ApplyOptimizerTargets(t, targets)
    \/ PostBegin(DefaultScenario)
    \/ BeginRun
    \/ Trial
    \/ FinishRun
    \/ StoreAndRespond

ThreadSpec == Init /\ [][ThreadNext]_vars

(***************************************************************************)
(* The optimizer schedule: the Firestore document optimizer_state/current,  *)
(* the handlers that write it, the worker loop the server runs as an        *)
(* asyncio task (main.py 1808-1858) and the worker process of               *)
(* optimizer_worker.py.  Firebase is connected (db is not None).  The time  *)
(* a poll takes is not counted; every worker polls once per POLL_INTERVAL.  *)
(* lastUpdateTime is held with its unit: int(time.time() * 1000) is         *)
(* [unit |-> "ms", at |-> seconds], a Firestore server timestamp is         *)
(* [unit |-> "timestamp", at |-> seconds].                                  *)
(***************************************************************************)
Millis(now) == Some([unit |-> "ms", at |-> now])

ServerTimestamp(now) == Some([unit |-> "timestamp", at |-> now])

\* the document a reference holds, {} when it does not exist
DocOf(state) == IF state = None THEN EmptyDict ELSE state[1]

\* state_ref.set(fields, merge=True)
SetMerge(state, fields) == Some(DictUpdate(DocOf(state), fields))

Segments == {"Clinkerization", "Finish Mill"}

\* what the frontend stores in optimizer_state/current: a schedule without a
\* timestamp (the document main.py 1829 asks for), a schedule started now, with the
\* time as milliseconds or as a Firestore timestamp, and a schedule in manual mode
FrontendDocs(now) ==
    { [running |-> TRUE, autoSchedule |-> TRUE, timer |-> ShortTimer,
       segment |-> "Clinkerization"],
      [running |-> TRUE, autoSchedule |-> TRUE, timer |-> ShortTimer,
       lastUpdateTime |-> Millis(now), segment |-> "Clinkerization"],
      [running |-> TRUE, autoSchedule |-> TRUE, timer |-> ShortTimer,
       lastUpdateTime |-> ServerTimestamp(now), segment |-> "Clinkerization"],
      [running |-> TRUE, autoSchedule |-> FALSE, timer |-> 0,
       lastUpdateTime |-> Millis(now), segment |-> "Clinkerization"] }

\* GET /optimize_targets (main.py 1444-1477): the document it leaves
optimize_targets_api_get(state, segment, now) ==
    SetMerge(state, [running |-> TRUE, autoSchedule |-> TRUE, timer |-> 0,
                     lastUpdateTime |-> Millis(now), segment |-> segment])

\* check_and_run_optimization as the worker loop finds it when it runs: the
\* definition of main.py 2025-2086, which rebinds the name defined at main.py 1706.
\* The result is the document it leaves; it sends no POST /optimize_targets
check_and_run_optimization(state, now) ==
    IF state = None
    THEN state
    ELSE LET doc == state[1]
             last_update == Get(doc, "lastUpdateTime", None)
         IN  IF ~Get(doc, "running", FALSE) \/ ~Get(doc, "autoSchedule", FALSE)
             THEN state
             ELSE IF last_update = None
             THEN state
             ELSE LET last_update_seconds ==
                          IF last_update[1].unit = "timestamp"
                          THEN last_update[1].at            \* last_update.timestamp()
                          ELSE 1000 * last_update[1].at     \* the stored integer
                      elapsed == now - last_update_seconds
                      timer == Get(doc, "timer", TIMER_RESET)
                  IN  IF elapsed >= timer
                      THEN LET queued == optimize_targets_api_get(
                                            state, Get(doc, "segment", "Clinkerization"), now)
                           IN  Some(DictUpdate(queued[1],
                                               [timer |-> TIMER_RESET,
                                                lastUpdateTime |-> ServerTimestamp(now)]))
                      ELSE state

\* a faulty variant of worker_is_due: the autoSchedule flag is not read
worker_is_due_unscheduled(doc, now) ==
    /\ Get(doc, "running", FALSE)
    /\ Get(doc, "lastUpdateTime", None) # None
    /\ Get(doc, "lastUpdateTime", None)[1].unit = "ms"
    /\ now - Get(doc, "lastUpdateTime", None)[1].at >= Get(doc, "timer", TIMER_RESET)

\* optimizer_worker.py 118-133: whether the poll runs the optimization.  A server
\* timestamp in lastUpdateTime makes current_time - last_update raise TypeError,
\* which the except at 157 swallows
worker_is_due(doc, now) ==
    /\ Get(doc, "running", FALSE)
    /\ Get(doc, "autoSchedule", FALSE)
    /\ Get(doc, "lastUpdateTime", None) # None
    /\ Get(doc, "lastUpdateTime", None)[1].unit = "ms"
    /\ now - Get(doc, "lastUpdateTime", None)[1].at >= Get(doc, "timer", TIMER_RESET)

\* check_and_run_optimization_worker (optimizer_worker.py 106-161):
\* <<whether run_optimization was called, the segment, the document it leaves>>; ok
\* says whether POST /optimize_targets answered 200
check_and_run_optimization_worker(state, now, ok) ==
    IF state # None /\ worker_is_due(state[1], now)
    THEN <<TRUE, Get(state[1], "segment", "Clinkerization"),
           IF ok THEN Some(DictUpdate(state[1], [timer |-> TIMER_RESET,
                                                 lastUpdateTime |-> Millis(now)]))
                 ELSE state>>
    ELSE <<FALSE, "", state>>

\* the worker loops that have not ended
LiveTasks == {i \in 1..Len(tasks) : tasks[i] # "done"}

\* 0 is the worker process, i > 0 the i-th worker loop task
Pollers == {i \in 1..Len(tasks) : tasks[i] = "live"}
             \cup (IF standalone = "polling" THEN {0} ELSE {})

\* the frontend creates the schedule document
FrontendWrites(doc) ==
    /\ server = "serving"
    /\ optimizer_state = None
    /\ optimizer_state' = Some(doc)
    /\ UNCHANGED <<clock, background_task, optimizer_enabled, tasks, standalone, stops,
                   polled, last_attempt>>
    /\ UNCHANGED plantVars

\* lifespan's startup (main.py 24-36)
LifespanStartup ==
    /\ server = "serving"
    /\ tasks = <<>>
    /\ IF optimizer_enabled
       THEN tasks' = <<"live">> /\ background_task' = Some(1)
       ELSE UNCHANGED <<tasks, background_task>>
    /\ UNCHANGED <<optimizer_state, clock, optimizer_enabled, standalone, stops, polled,
                   last_attempt>>
    /\ UNCHANGED plantVars

\* python optimizer_worker.py
StartStandaloneWorker ==
    /\ server = "serving"
    /\ standalone = "absent"
    /\ standalone' = "polling"
    /\ UNCHANGED <<optimizer_state, clock, background_task, optimizer_enabled, tasks, stops,
                   polled, last_attempt>>
    /\ UNCHANGED plantVars

\* GET /optimize_targets
GetOptimizeTargets(segment) ==
    /\ tasks # <<>>
    /\ optimizer_state' = optimize_targets_api_get(optimizer_state, segment, clock)
    /\ UNCHANGED <<clock, background_task, optimizer_enabled, tasks, standalone, stops,
                   polled, last_attempt>>
    /\ UNCHANGED plantVars

\* POST /start_background_optimization (main.py 1885-1921)
StartBackgroundOptimization(segment) ==
    /\ tasks # <<>>
    /\ optimizer_enabled' = TRUE
    /\ IF background_task = None \/ tasks[background_task[1]] = "done"
       THEN /\ Len(tasks) < Cardinality(TaskIds)
            /\ tasks' = Append(tasks, "live")
            /\ background_task' = Some(Len(tasks) + 1)
       ELSE UNCHANGED <<tasks, background_task>>
    /\ optimizer_state' = SetMerge(optimizer_state,
                                   [running |-> TRUE, autoSchedule |-> TRUE,
                                    timer |-> TIMER_RESET, lastUpdateTime |-> Millis(clock),
                                    segment |-> segment])
    /\ UNCHANGED <<clock, standalone, stops, polled, last_attempt>>
    /\ UNCHANGED plantVars

\* the document POST /stop_background_optimization leaves (main.py 1943-1950)
StoppedState(state, now) ==
    SetMerge(state, [running |-> FALSE, autoSchedule |-> FALSE, timer |-> TIMER_RESET,
                     lastUpdateTime |-> Millis(now)])

\* POST /stop_background_optimization up to await background_task (main.py
\* 1923-1935), or to its end when there is no task to cancel
StopBegin ==
    /\ tasks # <<>>
    /\ optimizer_enabled' = FALSE
    /\ IF background_task # None /\ tasks[background_task[1]] # "done"
       THEN /\ tasks' = [tasks EXCEPT ![background_task[1]] = "cancelling"]
            /\ stops' = stops \cup {background_task[1]}
            /\ UNCHANGED optimizer_state
       ELSE /\ optimizer_state' = StoppedState(optimizer_state, clock)
            /\ UNCHANGED <<tasks, stops>>
    /\ UNCHANGED <<clock, background_task, standalone, polled, last_attempt>>
    /\ UNCHANGED plantVars

\* the worker loop is resumed with CancelledError inside asyncio.sleep and breaks
\* (main.py 1850-1853)
WorkerCancelled(i) ==
    /\ i \in 1..Len(tasks)
    /\ tasks[i] = "cancelling"
    /\ tasks' = [tasks EXCEPT ![i] = "done"]
    /\ UNCHANGED <<optimizer_state, clock, background_task, optimizer_enabled, standalone,
                   stops, polled, last_attempt>>
    /\ UNCHANGED plantVars

\* the stop handler is resumed after the task it awaits has ended (main.py 1936-1958)
StopResume(i) ==
    /\ i \in stops
    /\ tasks[i] = "done"
    /\ background_task' = None
    /\ optimizer_state' = StoppedState(optimizer_state, clock)
    /\ stops' = stops \ {i}
    /\ UNCHANGED <<clock, optimizer_enabled, tasks, standalone, polled, last_attempt>>
    /\ UNCHANGED plantVars

\* one iteration of optimizer_worker_loop (main.py 1838-1850)
PollIntegrated(i) ==
    /\ i \in 1..Len(tasks)
    /\ tasks[i] = "live"
    /\ i \notin polled
    /\ optimizer_state' = check_and_run_optimization(optimizer_state, clock)
    /\ polled' = polled \cup {i}
    /\ UNCHANGED <<clock, background_task, optimizer_enabled, tasks, standalone, stops,
                   last_attempt>>
    /\ UNCHANGED plantVars

\* one iteration of main_loop (optimizer_worker.py 179-182)
PollStandalone ==
    /\ standalone = "polling"
    /\ 0 \notin polled
    /\ \E ok \in BOOLEAN :
          LET r == check_and_run_optimization_worker(optimizer_state, clock, ok)
          IN  /\ optimizer_state' = r[3]
              /\ last_attempt' = IF r[1]
                                 THEN Some([at |-> clock, segment |-> r[2],
                                            timer |-> Get(optimizer_state[1], "timer",
                                                          TIMER_RESET),
                                            ok |-> ok])
                                 ELSE last_attempt
    /\ polled' = polled \cup {0}
    /\ UNCHANGED <<clock, background_task, optimizer_enabled, tasks, standalone, stops>>
    /\ UNCHANGED plantVars

\* every worker that polls is in its asyncio.sleep(10): the sleeps end
Sleep ==
    /\ server = "serving"
    /\ Pollers \subseteq polled
    /\ clock + POLL_INTERVAL <= Epoch + MaxElapsed
    /\ clock' = clock + POLL_INTERVAL
    /\ polled' = {}
    /\ last_attempt' = None
    /\ UNCHANGED <<optimizer_state, background_task, optimizer_enabled, tasks, standalone,
                   stops>>
    /\ UNCHANGED plantVars

WorkerNext ==
    \/ GenerateInitialData
    \/ LifespanStartup
    \/ StartStandaloneWorker
    \/ \E doc \in FrontendDocs(clock) : FrontendWrites(doc)
    \/ \E segment \in Segments : GetOptimizeTargets(segment)
    \/ \E segment \in Segments : StartBackgroundOptimization(segment)
    \/ StopBegin
    \/ \E i \in TaskIds : WorkerCancelled(i)
    \/ \E i \in TaskIds : StopResume(i)
    \/ \E i \in TaskIds : PollIntegrated(i)
    \/ PollStandalone
    \/ Sleep

WorkerSpec == Init /\ [][WorkerNext]_vars

(***************************************************************************)
(* Properties.  They read the trials of the run in progress, the frame of  *)
(* the request and the history variables.                                  *)
(***************************************************************************)
\* the trials the run in progress has evaluated so far
RunTrials == IF run.pc = "trials" THEN run.trial_history ELSE <<>>

Within(x, lim) == lim[1] <= x /\ x <= lim[2]

\* how far x lies outside [lim[1], lim[2]]
Magnitude(x, lim) == Max3(lim[1] - x, x - lim[2], 0)

\* the sum of the values of a function with a finite domain
RECURSIVE FnSum(_)
FnSum(f) ==
    IF DOMAIN f = {}
    THEN 0
    ELSE LET k == CHOOSE x \in DOMAIN f : TRUE
         IN  f[k] + FnSum([x \in (DOMAIN f) \ {k} |-> f[x]])

\* the constraint variables a trial was penalised on
PenalisedVars(t) ==
    SeqToSet(OPTIMIZER_VARIABLES[run.segment].constraints) \cap DOMAIN t.constraint_vars

\* the range the run in progress penalises var against
RunPenaltyLimits(var) == PenaltyLimits(var, run.limits_dict, run.constraint_dict)

\* C1: every constraint value predict_constraint_responses returns (temperature,
\* torque, O2, fan power, LSF) lies within the variable's ENGINEERING_LIMITS range,
\* for every control assignment, ensemble state and hybrid weight.
C1_PredictionsWithinEngineeringLimits ==
    \A i \in 1..Len(RunTrials) :
        \A var \in DOMAIN RunTrials[i].constraint_vars :
            Within(RunTrials[i].constraint_vars[var], ENGINEERING_LIMITS[var])

\* C2: in every trial of every run, under the APC profile and under the engineering
\* profile, each sampled control variable lies within its ENGINEERING_LIMITS range.
C2_SamplesWithinEngineeringLimits ==
    \A i \in 1..Len(RunTrials) :
        \A var \in (DOMAIN RunTrials[i].optimization_vars) \cap (DOMAIN ENGINEERING_LIMITS) :
            Within(RunTrials[i].optimization_vars[var], ENGINEERING_LIMITS[var])

\* C3: a trial's constraint penalty is never negative, and it is 0 exactly when
\* every predicted constraint variable lies within the [lo, hi] the run resolved
\* for it.
C3_PenaltyZeroIffAllWithin ==
    \A i \in 1..Len(RunTrials) :
        LET t == RunTrials[i]
        IN  /\ t.constraint_penalty >= 0
            /\ t.constraint_penalty = 0
                 <=> \A var \in PenalisedVars(t) :
                        Within(t.constraint_vars[var], RunPenaltyLimits(var))

\* C3 happens: one run has evaluated a trial with every prediction in range and a
\* trial with a prediction below its range
C3_Witness ==
    \E i, j \in 1..Len(RunTrials) :
        /\ PenalisedVars(RunTrials[i]) # {}
        /\ RunTrials[i].constraint_penalty = 0
        /\ RunTrials[j].constraint_penalty > 0
        /\ \E var \in PenalisedVars(RunTrials[j]) :
              RunTrials[j].constraint_vars[var] < RunPenaltyLimits(var)[1]

\* the range C4 names: the user's override, else the profile's entry, else the
\* hard fallback
UserFirstLimits(var) ==
    IF var \in DOMAIN run.constraint_dict THEN run.constraint_dict[var]
    ELSE IF var \in DOMAIN run.limits_dict THEN run.limits_dict[var]
    ELSE Get(ENGINEERING_LIMITS, var, <<0, 10000>>)

\* C4: the [lo, hi] a predicted constraint is penalised against is the user's
\* override range when the request has one for the variable, else the active
\* profile's entry, else the hard fallback: a trial's penalty is the penalty
\* against these ranges, so a user override wins over a conflicting profile entry.
C4_UserOverrideWins ==
    \A i \in 1..Len(RunTrials) :
        LET t == RunTrials[i]
        IN  t.constraint_penalty =
               FnSum([var \in PenalisedVars(t) |->
                        1000 * Magnitude(t.constraint_vars[var], UserFirstLimits(var))])

CriticalVars == {"kiln_inlet_o2_pct", "burning_zone_temp_c", "kiln_motor_torque_pct"}
OperationalVars == {"id_fan_power_kw", "lsf_predicted"}

\* trial t violates var by magnitude m > 0 and violates no other constraint
ViolatesOnly(t, var, m) ==
    /\ var \in PenalisedVars(t)
    /\ m > 0
    /\ Magnitude(t.constraint_vars[var], RunPenaltyLimits(var)) = m
    /\ \A other \in PenalisedVars(t) \ {var} :
          Within(t.constraint_vars[other], RunPenaltyLimits(other))

\* the violation magnitudes the trials of the run show
RunMagnitudes ==
    UNION {{Magnitude(RunTrials[i].constraint_vars[var], RunPenaltyLimits(var)) :
               var \in PenalisedVars(RunTrials[i])} : i \in 1..Len(RunTrials)}

EmpiricalRange(var) ==
    LET vals == HistoryValues(run.data, var)
    IN  <<(SetMin(vals) * 9) \div 10, (SetMax(vals) * 11) \div 10>>

\* C6: a control variable is sampled from the active profile's explicit entry when
\* there is one, else from [min*0.9, max*1.1] over the recent-history window, else
\* from the hard fallback table; an explicit entry wins over conflicting empirical
\* bounds.
C6_SamplingRangeResolution ==
    \A i \in 1..Len(RunTrials) :
        \A var \in DOMAIN RunTrials[i].optimization_vars :
            LET value == RunTrials[i].optimization_vars[var]
            IN  IF var \in DOMAIN run.limits_dict
                THEN Within(value, run.limits_dict[var])
                ELSE IF HistoryValues(run.data, var) # {}
                     THEN Within(value, EmpiricalRange(var))
                     ELSE Within(value, Get(ENGINEERING_LIMITS, var, <<0, 1000>>))

\* C6 happens: a trial sampled one variable from an explicit entry at a value the
\* empirical range excludes, and another variable, without entry, from the window
C6_Witness ==
    \E i \in 1..Len(RunTrials) :
        \E var, free \in DOMAIN RunTrials[i].optimization_vars :
            /\ var \in DOMAIN run.limits_dict
            /\ HistoryValues(run.data, var) # {}
            /\ ~Within(RunTrials[i].optimization_vars[var], EmpiricalRange(var))
            /\ free \notin DOMAIN run.limits_dict
            /\ HistoryValues(run.data, free) # {}

\* some control variable of the segment resolves to lo >= hi
Degenerate(segment, limits_dict, data) ==
    \E var \in SeqToSet(OPTIMIZER_VARIABLES[segment].optimization) :
        SamplingBounds(var, limits_dict, data)[1] >= SamplingBounds(var, limits_dict, data)[2]

\* C7: when a control variable resolves to lo >= hi under one profile, that
\* profile's run aborts, and the run under the other profile completes and its
\* result is returned to the caller of the dual optimization.
C7_DegenerateAbortsOnlyItsRun ==
    (post.pc \in {"done", "failed"} /\ Len(views) = 2)
    => LET apc_degenerate == Degenerate(post.request.segment, post.apc_limits, views[1].data)
           eng_degenerate == Degenerate(post.request.segment, ENGINEERING_LIMITS, views[2].data)
       IN  /\ apc_degenerate => post.apc_result = None
           /\ eng_degenerate => post.eng_result = None
           /\ (apc_degenerate /\ ~eng_degenerate)
                 => /\ post.eng_result # None
                    /\ post.response[1].status = 200
                    /\ post.response[1].engineering_optimization = post.eng_result[1]
           /\ (eng_degenerate /\ ~apc_degenerate)
                 => /\ post.apc_result # None
                    /\ post.response[1].status = 200
                    /\ post.response[1].apc_optimization = post.apc_result[1]

\* C8: when the history holds too few snapshots (the window read is empty), the
\* request ends with the explicit "insufficient data" error surfaced to the caller,
\* and no trial is sampled in either run.  A request that failed before any
\* training is one whose window was empty.
C8_InsufficientDataSurfaced ==
    (post.pc = "failed" /\ trainings = <<>>)
    => /\ post.response[1].error = "Not enough plant data for optimization."
       /\ post.apc_history = <<>>
       /\ post.eng_history = <<>>

\* C9: within one request the ensemble is retrained exactly once, before any trial,
\* and the APC run and the engineering run evaluate against the same
\* current_state snapshot, the same history window and the same ensemble state.
C9_OneTrainingOneSnapshot ==
    /\ Len(trainings) <= 1
    /\ Len(views) >= 1 => Len(trainings) = 1
    /\ Len(views) = 2 => views[1] = views[2]

\* C10: after any sequence of training calls, is_trained is true exactly when the
\* most recent training window held at least MIN_SAMPLES snapshots: a call with
\* fewer leaves it false, also after an earlier call trained the ensemble.
C10_TrainedIffLastWindowLargeEnough ==
    last_window >= 0
    => (hybrid_model.ml_model.is_trained <=> last_window >= MIN_SAMPLES)

\* the physics model's prediction for the candidate of trial t
PhysicsOf(t) == calculate_constraint_responses(t.optimization_vars, run.current_constraints)

\* C11: whenever the ensemble is not trained, the hybrid prediction of every
\* constraint variable the physics model predicts equals the physics prediction,
\* whatever the hybrid weight.
C11_UntrainedIsPhysicsOnly ==
    \A i \in 1..Len(RunTrials) :
        (~hybrid_model.ml_model.is_trained /\ RunTrials[i].constraint_vars # EmptyDict)
        => \A var \in BlendedVars :
              RunTrials[i].constraint_vars[var] = PhysicsOf(RunTrials[i])[var]

\* C11 happens: a trial was predicted with an untrained ensemble under a weight
\* that is not 0
C11_Witness ==
    /\ ~hybrid_model.ml_model.is_trained
    /\ hybrid_model.ml_weight > 0
    /\ \E i \in 1..Len(RunTrials) : RunTrials[i].constraint_vars # EmptyDict

\* C12: when the retraining at the start of a run fails (the window holds fewer
\* than MIN_SAMPLES snapshots), the run is not aborted and every trial of it uses
\* the physics-only prediction.
C12_FailedRetrainingIsPhysicsOnly ==
    \A i \in 1..Len(RunTrials) :
        (last_window < MIN_SAMPLES /\ RunTrials[i].constraint_vars # EmptyDict)
        => \A var \in BlendedVars :
              RunTrials[i].constraint_vars[var] = PhysicsOf(RunTrials[i])[var]

\* C13: with hybrid weight 0 the prediction of each of the four blended variables
\* equals the physics prediction exactly, and with weight 1 and a trained ensemble
\* it equals the ensemble's prediction exactly.
C13_BlendEndpoints ==
    \A i \in 1..Len(RunTrials) :
        RunTrials[i].constraint_vars # EmptyDict
        => \A var \in BlendedVars :
              /\ hybrid_model.ml_weight = 0
                   => RunTrials[i].constraint_vars[var] = PhysicsOf(RunTrials[i])[var]
              /\ (hybrid_model.ml_weight = 10 /\ hybrid_model.ml_model.is_trained)
                   => RunTrials[i].constraint_vars[var] = hybrid_model.ml_model.models[var]

\* C13 happens: with a trained ensemble and weight 1, a trial was predicted whose
\* physics prediction differs from the ensemble's
C13_Witness ==
    /\ hybrid_model.ml_weight = 10
    /\ hybrid_model.ml_model.is_trained
    /\ \E i \in 1..Len(RunTrials) :
          /\ RunTrials[i].constraint_vars # EmptyDict
          /\ \E var \in BlendedVars :
                PhysicsOf(RunTrials[i])[var] # hybrid_model.ml_model.models[var]

\* the state of the run in progress: WARMUP while the sampler's start-up trials
\* last, GUIDED until the budget is used up, DONE until the run returns
RunPhase ==
    IF run.pc = "none" THEN "INIT"
    ELSE IF Len(run.trial_history) < n_startup_trials THEN "WARMUP"
    ELSE IF Len(run.trial_history) < n_trials THEN "GUIDED"
    ELSE "DONE"

\* C14 as stated: a run that started sampling ends only after it has evaluated
\* the whole budget of trials (INIT -> WARMUP -> GUIDED -> DONE, no other
\* transition).
C14_EveryStartedRunUsesTheBudget ==
    [][(run.pc = "trials" /\ run'.pc = "none") => Len(run.trial_history) = n_trials]_vars

\* one step of a run in progress
LifecycleStep ==
    /\ (run.pc = "none" /\ run'.pc = "trials")
          => (run'.trial_history = <<>> /\ RunPhase' = "WARMUP")
    /\ (run.pc = "trials" /\ run' # run)
          => \/ \* one more trial, within the budget
                /\ run'.pc = "trials"
                /\ Len(run.trial_history) < n_trials
                /\ Len(run'.trial_history) = Len(run.trial_history) + 1
                /\ SubSeq(run'.trial_history, 1, Len(run.trial_history)) = run.trial_history
                /\ <<RunPhase, RunPhase'>> \in {<<"WARMUP", "WARMUP">>, <<"WARMUP", "GUIDED">>,
                                                <<"GUIDED", "GUIDED">>, <<"GUIDED", "DONE">>}
             \/ \* the return of a run that used the whole budget
                /\ RunPhase = "DONE"
                /\ run'.pc = "none"
                /\ post'.pc # post.pc
                /\ IF post.pc = "apc" THEN post'.apc_result # None ELSE post'.eng_result # None
             \/ \* the abort in the first trial: nothing was evaluated
                /\ run.trial_history = <<>>
                /\ run'.pc = "none"
                /\ IF post.pc = "apc" THEN post'.apc_result = None ELSE post'.eng_result = None

\* C14 amended: every run that starts sampling eventually ends.  It either aborts
\* in its first trial, with no trial evaluated, or it goes WARMUP -> GUIDED -> DONE
\* with no other transition, the first n_startup_trials trials being the warm-up,
\* evaluates exactly n_trials trials and then returns a result; it never
\* evaluates a trial beyond the budget and never returns to WARMUP.
C14_RunLifecycle ==
    /\ [][LifecycleStep]_vars
    /\ [](run.pc = "trials" => Len(run.trial_history) <= n_trials)
    /\ (run.pc = "trials") ~> (run.pc = "none")

\* C14 happens: a run has evaluated its whole budget and is about to return
C14_Witness ==
    /\ run.pc = "trials"
    /\ Len(run.trial_history) = n_trials
    /\ \A i \in 1..n_trials : run.trial_history[i].trial = i - 1

\* what the runs of the request in progress have returned so far:
\* <<result, trial_history>> pairs
ReturnedPairs ==
    IF post.pc = "idle" THEN {}
    ELSE (IF post.pc \in {"engineering", "store", "done"}
          THEN {<<post.apc_result, post.apc_history>>} ELSE {})
         \cup (IF post.pc \in {"store", "done"}
               THEN {<<post.eng_result, post.eng_history>>} ELSE {})

\* the trials 0 .. n_trials - 1, one entry each, in order
CompleteHistory(h) ==
    /\ Len(h) = n_trials
    /\ \A i \in 1..n_trials : h[i].trial = i - 1

\* C15: a run that aborts returns no best candidate and no trial history, and a
\* best candidate is only returned, with the whole trial history, by a run that
\* completed all its trials: a run in progress ends either with every trial
\* evaluated, or handing back the pair (None, []).
C15_AbortIsAllOrNothing ==
    /\ [](\A r \in ReturnedPairs : IF r[1] = None THEN r[2] = <<>>
                                    ELSE CompleteHistory(r[2]))
    /\ [][(run.pc = "trials" /\ run'.pc = "none")
            => \/ /\ CompleteHistory(run.trial_history)
                  /\ post' = Returned(Some(FinalResult(run, hybrid_model, ml_models,
                                                       post.pricing)),
                                      run.trial_history)
               \/ /\ ~CompleteHistory(run.trial_history)
                  /\ post' = Returned(None, <<>>)]_vars

\* C15 happens: within one request the APC run aborted while sampling and returned
\* nothing, and the engineering run completed and returned its candidate
C15_Witness ==
    /\ post.pc = "store"
    /\ post.apc_result = None /\ post.apc_history = <<>>
    /\ post.eng_result # None /\ CompleteHistory(post.eng_history)

\* the completed runs of the request in progress: <<OptimizationResult, trial_history>>
CompletedPairs == {<<r[1][1], r[2]>> : r \in {q \in ReturnedPairs : q[1] # None}}

\* C16: each trial records exactly one entry, whose objective_score is its
\* economic_value minus its constraint_penalty; the optimization_score a run reports
\* is the largest objective_score of its trial history, and its suggested control
\* targets are those of a trial attaining that score.
C16_BestTrialIsReported ==
    /\ [](\A i \in 1..Len(RunTrials) :
             /\ RunTrials[i].trial = i - 1
             /\ RunTrials[i].objective_score =
                   RunTrials[i].economic_value - RunTrials[i].constraint_penalty)
    /\ [][(run.pc = "trials" /\ run'.pc = "trials" /\ run' # run)
            => /\ Len(run'.trial_history) = Len(run.trial_history) + 1
               /\ SubSeq(run'.trial_history, 1, Len(run.trial_history)) = run.trial_history]_vars
    /\ [](\A r \in CompletedPairs :
             /\ \A i \in 1..Len(r[2]) : r[2][i].objective_score <= r[1].optimization_score
             /\ \E i \in 1..Len(r[2]) :
                   /\ r[2][i].objective_score = r[1].optimization_score
                   /\ r[2][i].objective_score =
                         r[2][i].economic_value - r[2][i].constraint_penalty
                   /\ \A var \in DOMAIN r[2][i].optimization_vars :
                         r[1].suggested_targets[var] = r[2][i].optimization_vars[var])

\* C16 happens: a completed run whose trials differ in score, one of them penalised,
\* and whose best trial is not the first one
C16_Witness ==
    \E r \in CompletedPairs :
        /\ \E i \in 1..Len(r[2]) : r[2][i].constraint_penalty > 0
        /\ r[2][1].objective_score < r[1].optimization_score

\* the variables an OptimizationResult lists in constraint_violations
ReportedViolations(result) ==
    {result.constraint_violations[k][1] : k \in 1..Len(result.constraint_violations)}

\* C17: for every completed run, each constraint variable of the best candidate
\* lies within the [lo, hi] it was penalised against during the trials, or is
\* listed in the result's constraint_violations; the run returns a result either way.
C17_ResidualViolationsReported ==
    [][(run.pc = "trials" /\ run'.pc = "none" /\ CompleteHistory(run.trial_history))
         => LET returned == IF post.pc = "apc" THEN post'.apc_result ELSE post'.eng_result
            IN  /\ returned # None
                /\ \A var \in SeqToSet(OPTIMIZER_VARIABLES[run.segment].constraints)
                                 \cap DOMAIN returned[1].suggested_targets :
                      \/ Within(returned[1].suggested_targets[var], RunPenaltyLimits(var))
                      \/ var \in ReportedViolations(returned[1])]_vars

\* the electricity cost term inside a trial's economic value: what the value would
\* be with no fan power at all, less the value the trial recorded
TrialElectricityCost(t) ==
    calculate_economic_value(DictUpdate(t.optimization_vars, [id_fan_power_kw |-> 0]),
                             post.pricing)
      - t.economic_value

\* C18: in every trial the electricity cost term of the economic value is the ID
\* fan power predicted for the trial's candidate times the electricity unit price.
C18_ElectricityCostFollowsPredictedPower ==
    \A i \in 1..Len(RunTrials) :
        "id_fan_power_kw" \in DOMAIN RunTrials[i].constraint_vars
          => TrialElectricityCost(RunTrials[i]) =
                RunTrials[i].constraint_vars["id_fan_power_kw"]
                  * post.pricing.electricity_price_per_kwh

\* C19: the plant history store never holds more than its capacity; every
\* store_plant_data appends the new snapshot at the end and, when the store was at
\* capacity, removes exactly the oldest one, so the store holds the most recent
\* snapshots in arrival order.
C19_StoreEvictsOldest ==
    /\ [](Len(plant_data_history) <= HISTORY_CAPACITY)
    /\ [](\A i \in 1..(Len(plant_data_history) - 1) :
             plant_data_history[i].tick < plant_data_history[i + 1].tick)
    /\ [][(GenerateInitialData \/ GetLivePlantState)
            => plant_data_history' =
                  Append(IF Len(plant_data_history) = HISTORY_CAPACITY
                         THEN Tail(plant_data_history)
                         ELSE plant_data_history,
                         step(plant_simulator)[2])]_vars
    /\ [][plant_data_history' # plant_data_history
            => (GenerateInitialData \/ GetLivePlantState)]_vars

\* C19 happens: the store is at capacity and its first snapshot, the oldest one the
\* simulator produced, has been removed
C19_Witness ==
    /\ Len(plant_data_history) = HISTORY_CAPACITY
    /\ plant_data_history[1].tick > 1
    /\ plant_data_history[HISTORY_CAPACITY].tick = plant_simulator.tick

\* C20: whatever integer n_data a request carries, 0 and negative values included,
\* the window get_recent_data hands to a run holds no more than
\* min(n_data, len(plant_data_history)) snapshots, and they are the most recent ones.
C20_RecentDataIsBounded ==
    [][(run.pc = "none" /\ run'.pc = "trials")
         => LET n == post.request.n_data
                length == Len(plant_data_history)
                data == run'.data
            IN  /\ Len(data) <= Min2(n, length)
                /\ data = SubSeq(plant_data_history, length - Len(data) + 1, length)]_vars

\* C21: the list a reader obtained from get_recent_data keeps its length and its
\* elements for as long as the reader uses it, whatever appends and evictions
\* happen on the store meanwhile: the window of a run in progress stays what
\* get_recent_data returned when the run began.
C21_ReaderHoldsStableCopy ==
    /\ [][(run.pc = "trials" /\ run'.pc = "trials") => run'.data = run.data]_vars
    /\ [](run.pc = "trials" => run.data = views[Len(views)].data)

\* C21 happens: a run that read the whole store is evaluating trials, and since it
\* read an append has evicted the oldest snapshot of its window
C21_Witness ==
    /\ run.pc = "trials"
    /\ Len(run.trial_history) >= 1
    /\ Len(run.data) = HISTORY_CAPACITY
    /\ plant_data_history[1].tick > run.data[1].tick
    /\ plant_data_history[Len(plant_data_history)].tick > run.data[Len(run.data)].tick

\* C23: in every reachable state the hybrid weight used for blending lies in
\* [0, 1] (0 .. 10 in tenths), whatever the settings document supplies.
C23_HybridWeightInUnitInterval ==
    0 <= hybrid_model.ml_weight /\ hybrid_model.ml_weight <= 10

\* C24: a successful dual-optimization response holds the operating-limit result,
\* the safety-limit result, the combined trial history (the operating run's trials,
\* then the safety run's), the pricing both runs used, and the economic delta: the
\* safety-limit economic value minus the operating-limit economic value.
C24_ResponseCarriesEconomicDelta ==
    (post.pc = "done" /\ post.response # None /\ post.response[1].status = 200)
      => LET r == post.response[1]
         IN  /\ r.apc_optimization = post.apc_result[1]
             /\ r.engineering_optimization = post.eng_result[1]
             /\ r.optimization_history = post.apc_history \o post.eng_history
             /\ r.pricing_details = post.pricing
             /\ "economic_delta" \in DOMAIN r
             /\ r.economic_delta = r.engineering_optimization.economic_value
                                     - r.apc_optimization.economic_value

\* C29: a dual-optimization request only proposes setpoints: no step of the request
\* appends to or removes from the plant history store, and none changes the plant
\* simulator's state.
C29_RequestLeavesPlantUnchanged ==
    [][((\E sc \in Scenarios : PostBegin(sc)) \/ BeginRun \/ Trial \/ FinishRun
          \/ StoreAndRespond)
         => /\ plant_data_history' = plant_data_history
            /\ plant_simulator' = plant_simulator]_vars

\* C30: a POST /optimize_targets request that returns no valid response, one of its
\* runs having produced no result, leaves optimization_history unchanged; a record
\* is appended only by a request that returns both results, and the list never
\* holds more than 100 records.
C30_FailedRequestLeavesHistory ==
    /\ [](Len(optimization_history) <= OPTIMIZATION_HISTORY_CAPACITY)
    /\ [][optimization_history' # optimization_history
            => /\ post'.pc = "done"
               /\ post'.apc_result # None /\ post'.eng_result # None]_vars

\* the pool threads that are inside plant_simulator.step() before and after a step
\* of the model: the operations another operation's write overlaps
ThreadsInsideStep == {t \in ThreadPool : threads[t].pc = "in_step" /\ threads'[t] = threads[t]}

\* C22: the plant history store is the only state that concurrently running
\* operations share and mutate, and every access to it is made holding the history
\* lock: the store only changes at startup or in the hands of the thread that holds
\* plant_data_lock, and the plant simulator, the hybrid model and the pricing are
\* never written by one operation while another is in the middle of an access.
C22_OnlyTheStoreIsShared ==
    /\ [][plant_data_history' # plant_data_history
            => \/ server = "loading"
               \/ \E t \in ThreadPool : plant_data_lock = Some(t) /\ threads[t].pc = "locked"]_vars
    /\ [][(plant_simulator' # plant_simulator \/ hybrid_model' # hybrid_model
             \/ pricing_config' # pricing_config)
            => ThreadsInsideStep = {}]_vars

\* a step in which a worker polls, and one in which a poll starts an optimization
\* run, that is sends POST /optimize_targets
PollStep == \E i \in polled' : i \notin polled

StartsRun == last_attempt' # None /\ last_attempt' # last_attempt

\* the stored optimizer state is the one GET /optimize_targets leaves
QueuedByGet ==
    /\ optimizer_state # None
    /\ Get(optimizer_state[1], "running", FALSE)
    /\ Get(optimizer_state[1], "autoSchedule", FALSE)
    /\ Get(optimizer_state[1], "timer", TIMER_RESET) = 0
    /\ Get(optimizer_state[1], "lastUpdateTime", None) \in {Millis(clock), Millis(clock - POLL_INTERVAL)}
    /\ "segment" \in DOMAIN optimizer_state[1]

\* C25: a poll of a live worker that finds the optimizer state as GET
\* /optimize_targets stored it (running, autoSchedule, timer 0, lastUpdateTime now)
\* sends POST /optimize_targets for the segment of the request.
C25_PollRunsQueuedRequest ==
    [][(PollStep /\ QueuedByGet)
         => (StartsRun /\ last_attempt'[1].segment = optimizer_state[1].segment)]_vars

\* the condition under which a poll may start a run: running, autoSchedule, and the
\* timer elapsed since lastUpdateTime or no lastUpdateTime
MayRun(state, now) ==
    /\ state # None
    /\ Get(state[1], "running", FALSE)
    /\ Get(state[1], "autoSchedule", FALSE)
    /\ \/ Get(state[1], "lastUpdateTime", None) = None
       \/ now - Get(state[1], "lastUpdateTime", None)[1].at >= Get(state[1], "timer", TIMER_RESET)

\* C26: a poll starts an optimization run only if the stored state has running and
\* autoSchedule set and the timer has elapsed since lastUpdateTime (or there is no
\* lastUpdateTime); every other poll starts none and leaves the stored state as it is.
C26_RunsOnlyWhenDue ==
    [][PollStep => /\ StartsRun => MayRun(optimizer_state, clock)
                   /\ ~MayRun(optimizer_state, clock)
                        => (~StartsRun /\ optimizer_state' = optimizer_state)]_vars

\* a poll has started a run for a schedule whose timer had to elapse first, at a time
\* when another worker has polled too
C26_Witness ==
    /\ last_attempt # None
    /\ last_attempt[1].timer = ShortTimer
    /\ clock > Epoch
    /\ \E i \in polled : i # 0

\* C27: a poll whose optimization attempt fails stores the time of the attempt in
\* lastUpdateTime, so that the next polls find the timer not elapsed.
C27_FailedAttemptResetsTimestamp ==
    [][(StartsRun /\ ~last_attempt'[1].ok)
         => /\ optimizer_state' # None
            /\ Get(optimizer_state'[1], "lastUpdateTime", None) = Millis(clock)]_vars

\* C28: at most one optimizer worker loop is live, and background_task refers to the
\* live one.
C28_OneLiveWorkerLoop ==
    /\ Cardinality(LiveTasks) <= 1
    /\ \A i \in LiveTasks : background_task = Some(i)

====
